---- MODULE Spec2Model ----
(***************************************************************************)
(* A model of domainstats: the configuration-driven header / query plan /  *)
(* row extraction (lib/config_extract.go) and the concurrent pipeline of   *)
(* main.go (reader, processors, query workers, closer, writer).            *)
(***************************************************************************)
EXTENDS Integers, Sequences, FiniteSets, Bags, TLC

VARIABLES
    config,      \* the Feature Selector (*Config), loaded once at startup
    op,          \* pure-function harness: the function applied last
    arg,         \* pure-function harness: its argument (a response payload)
    out,         \* pure-function harness: its result
    err,         \* pure-function harness: the error it returned
    input,       \* lines of the domain-list file not yet read
    reader,      \* position of the reading goroutine of readDomainsFrom
    domainChan,  \* readDomainsFrom: buffered channel of domains
    domainClosed,\* close(domainChan) has happened
    numDomains,  \* main.go global counter
    proc,        \* process goroutines: the bag of their positions and locals
    qw,          \* query goroutines: the bag of their positions and locals
    respChan,    \* the response channels made by DeriveMessages
    qClosed,     \* close(qChan) has happened
    outChan,     \* getInfo: buffered channel of rows
    outClosed,   \* close(outChan) has happened
    wg,          \* getInfo: the WaitGroup counter
    closer,      \* position of the closing goroutine of getInfo
    writer,      \* position of writeOut
    written,     \* rows written by writeOut, in order
    log          \* what the run recorded: log lines and ghost history

vars == <<config, op, arg, out, err, input, reader, domainChan, domainClosed,
          numDomains, proc, qw, respChan, qClosed, outChan, outClosed, wg,
          closer, writer, written, log>>

pureVars == <<op, arg, out, err>>
pipeVars == <<input, reader, domainChan, domainClosed, numDomains, proc, qw,
              respChan, qClosed, outChan, outClosed, wg, closer, writer,
              written, log>>

(***************************************************************************)
(* Bounds of the model.                                                    *)
(***************************************************************************)
MaxTrueFlags == 2
MaxOffFlags == 1

(***************************************************************************)
(* The configuration structs: the declared field order of each section.    *)
(***************************************************************************)
CategoriesConfig == <<"Labels", "SecurityCategories", "ContentCategories">>

DomainScoreConfig == <<"Domain", "Score">>

SecurityConfig ==
    <<"DGAScore", "Perplexity", "Entropy", "SecureRank2", "PageRank",
      "ASNScore", "PrefixScore", "RIPScore", "Popularity", "Fastflux",
      "Geodiversity", "GeodiversityNormalized", "TLDGeodiversity",
      "Geoscore", "KSTest", "Attack", "ThreatType">>

TaggingDatesConfig == <<"Begin", "End", "Category", "Url">>

DomainRRHistoryPeriodConfig ==
    <<"FirstSeen", "LastSeen", "Name", "TTL", "Class", "Type", "RR">>

DomainRRHistoryFeaturesConfig ==
    <<"Age", "TTLsMin", "TTLsMax", "TTLsMean", "TTLsMedian", "TTLsStdDev",
      "CountryCodes", "ASNs", "Prefixes", "RIPSCount", "RIPSDiversity",
      "Locations", "GeoDistanceSum", "GeoDistanceMean", "NonRoutable",
      "MailExchanger", "CName", "FFCandidate", "RIPSStability">>

\* The Features flags that extractDomainRRHistoryInfo reads: the declared
\* ones and the two it reads last, BaseDomain and IsSubdomain.
FeaturesFlagsRead ==
    DomainRRHistoryFeaturesConfig \o <<"BaseDomain", "IsSubdomain">>

Range(s) == {s[i] : i \in 1..Len(s)}

\* Every boolean leaf of Config, as <<section, field>>.
AllFlags ==
    {<<"Status", "Status">>}
    \cup {<<"Categories", n>> : n \in Range(CategoriesConfig)}
    \cup {<<"Cooccurrences", n>> : n \in Range(DomainScoreConfig)}
    \cup {<<"Related", n>> : n \in Range(DomainScoreConfig)}
    \cup {<<"Security", n>> : n \in Range(SecurityConfig)}
    \cup {<<"TaggingDates", n>> : n \in Range(TaggingDatesConfig)}
    \cup {<<"Periods", n>> : n \in Range(DomainRRHistoryPeriodConfig)}
    \cup {<<"Features", n>> : n \in Range(FeaturesFlagsRead)}

\* The Config value whose true leaves are exactly S.
Config(S) ==
    [ Status |-> <<"Status", "Status">> \in S,
      Categories |-> [n \in Range(CategoriesConfig) |-> <<"Categories", n>> \in S],
      Cooccurrences |-> [n \in Range(DomainScoreConfig) |-> <<"Cooccurrences", n>> \in S],
      Related |-> [n \in Range(DomainScoreConfig) |-> <<"Related", n>> \in S],
      Security |-> [n \in Range(SecurityConfig) |-> <<"Security", n>> \in S],
      TaggingDates |-> [n \in Range(TaggingDatesConfig) |-> <<"TaggingDates", n>> \in S],
      DomainRRHistory |->
        [ Periods |-> [n \in Range(DomainRRHistoryPeriodConfig) |-> <<"Periods", n>> \in S],
          Features |-> [n \in Range(FeaturesFlagsRead) |-> <<"Features", n>> \in S] ] ]

(***************************************************************************)
(* any: true iff one of the declared fields of the struct is true.         *)
(***************************************************************************)
\* Mutant: the loop returns the value of the first field.
any_FirstField(structField, rType) == structField[rType[1]]

any(structField, rType) == \E i \in 1..Len(rType) : structField[rType[i]]

(***************************************************************************)
(* Formatting helpers.  A float64 is modelled as the decimal m / 10^e (not *)
(* necessarily normalised); an int as an integer.                          *)
(***************************************************************************)
RECURSIVE Pow10(_)
Pow10(e) == IF e = 0 THEN 1 ELSE 10 * Pow10(e - 1)

Abs(n) == IF n < 0 THEN -n ELSE n

\* strconv.Itoa
Itoa(n) == ToString(n)

\* strconv.FormatBool
FormatBool(b) == IF b THEN "true" ELSE "false"

\* The number of trailing decimal zeros of m that can be dropped (at most e).
RECURSIVE TrailingZeros(_, _)
TrailingZeros(m, e) ==
    IF e = 0 \/ m % 10 # 0 THEN 0 ELSE 1 + TrailingZeros(m \div 10, e - 1)

\* The e low decimal digits of n, with leading zeros.
RECURSIVE FracDigits(_, _)
FracDigits(n, e) ==
    IF e = 0 THEN "" ELSE FracDigits(n \div 10, e - 1) \o ToString(n % 10)

\* strconv.FormatFloat(f, 'f', -1, 64): the shortest decimal text, no
\* exponent, no trailing zeros.
convertFloatToStr(f) ==
    LET a == Abs(f.m)
        z == TrailingZeros(a, f.e)
        m == a \div Pow10(z)
        e == f.e - z
    IN  (IF f.m < 0 THEN "-" ELSE "")
        \o ToString(m \div Pow10(e))
        \o (IF e = 0 THEN "" ELSE "." \o FracDigits(m % Pow10(e), e))

\* strings.Join
RECURSIVE Join(_, _)
Join(strs, sep) ==
    IF Len(strs) = 0 THEN ""
    ELSE IF Len(strs) = 1 THEN strs[1]
    ELSE strs[1] \o sep \o Join(Tail(strs), sep)

\* Appends appendVal to source if cond is true.
appendIf(source, appendVal, cond) ==
    IF cond THEN Append(source, appendVal) ELSE source

\* One field of a sub-row: the text, and the response attribute it was
\* formatted from.
Fld(src, val) == [src |-> src, val |-> val]

Vals(row) == [i \in 1..Len(row) |-> row[i].val]
Srcs(row) == [i \in 1..Len(row) |-> row[i].src]

(***************************************************************************)
(* DeriveHeader                                                            *)
(***************************************************************************)
appendField(header, field, cond) ==
    IF cond THEN Append(header, field) ELSE header

\* Mutant: the Labels toggle is not skipped.
RECURSIVE appendFieldsFrom_WithLabels(_, _, _, _)
appendFieldsFrom_WithLabels(header, structField, rType, i) ==
    IF i > Len(rType) THEN header
    ELSE appendFieldsFrom_WithLabels(
            appendField(header, rType[i], structField[rType[i]]),
            structField, rType, i + 1)

RECURSIVE appendFieldsFrom(_, _, _, _)
appendFieldsFrom(header, structField, rType, i) ==
    IF i > Len(rType) THEN header
    ELSE appendFieldsFrom(
            IF rType[i] # "Labels"
            THEN appendField(header, rType[i], structField[rType[i]])
            ELSE header,
            structField, rType, i + 1)

appendFields(header, structField, rType) ==
    appendFieldsFrom(header, structField, rType, 1)

DeriveHeader(c) ==
    LET h0 == <<"Domain">>
        h1 == appendField(h0, "Status", c.Status)
        h2 == appendFields(h1, c.Categories, CategoriesConfig)
        h3 == IF any(c.Cooccurrences, DomainScoreConfig)
              THEN appendField(h2, "Cooccurrences", TRUE) ELSE h2
        h4 == IF any(c.Related, DomainScoreConfig)
              THEN appendField(h3, "RelatedDomains", TRUE) ELSE h3
        h5 == appendFields(h4, c.Security, SecurityConfig)
        h6 == IF any(c.TaggingDates, TaggingDatesConfig)
              THEN appendField(h5, "TaggingDates", TRUE) ELSE h5
        h7 == IF any(c.DomainRRHistory.Periods, DomainRRHistoryPeriodConfig)
              THEN appendField(h6, "RR Periods", TRUE) ELSE h6
    IN  appendFields(h7, c.DomainRRHistory.Features,
                     DomainRRHistoryFeaturesConfig)

(***************************************************************************)
(* DeriveMessages: the queries of one domain, each with a response channel *)
(* made for it.  Channels are numbered; firstChan is the next unused id.   *)
(***************************************************************************)
DomainQueryMessage(q, domain, labels, queryType, ch) ==
    [Q |-> q, Domain |-> domain, Labels |-> labels, QueryType |-> queryType,
     RespChan |-> ch]

\* make(chan DomainQueryResponse, 1) for the message appended to msgs.
\* Mutant: every message of a domain gets the same channel.
MakeChan_Shared(firstChan, msgs) == firstChan

MakeChan(firstChan, msgs) == firstChan + Len(msgs)

\* Mutant: the Categorization query is planned whatever the flags.
DeriveMessages_AlwaysCategorization(c, domain, firstChan) ==
    <<DomainQueryMessage("CategorizationQuery", domain, c.Categories.Labels,
                         "", firstChan)>>

DeriveMessages(c, domain, firstChan) ==
    LET m0 == <<>>
        m1 == IF any(c.Categories, CategoriesConfig) \/ c.Status
              THEN Append(m0, DomainQueryMessage("CategorizationQuery", domain,
                              c.Categories.Labels, "", MakeChan(firstChan, m0)))
              ELSE m0
        m2 == IF any(c.Cooccurrences, DomainScoreConfig)
              THEN Append(m1, DomainQueryMessage("CooccurrencesQuery", domain,
                              FALSE, "", MakeChan(firstChan, m1)))
              ELSE m1
        m3 == IF any(c.Related, DomainScoreConfig)
              THEN Append(m2, DomainQueryMessage("RelatedQuery", domain,
                              FALSE, "", MakeChan(firstChan, m2)))
              ELSE m2
        m4 == IF any(c.Security, SecurityConfig)
              THEN Append(m3, DomainQueryMessage("SecurityQuery", domain,
                              FALSE, "", MakeChan(firstChan, m3)))
              ELSE m3
        m5 == IF any(c.TaggingDates, TaggingDatesConfig)
              THEN Append(m4, DomainQueryMessage("DomainTagsQuery", domain,
                              FALSE, "", MakeChan(firstChan, m4)))
              ELSE m4
    IN  IF any(c.DomainRRHistory.Periods, DomainRRHistoryPeriodConfig)
           \/ any(c.DomainRRHistory.Features, DomainRRHistoryFeaturesConfig)
        THEN Append(m5, DomainQueryMessage("DomainRRHistoryQuery", domain,
                        FALSE, "A", MakeChan(firstChan, m5)))
        ELSE m5

(***************************************************************************)
(* The extractors, one per response type.  A response is a record whose    *)
(* field type names its Go type.                                           *)
(***************************************************************************)
\* Mutant: an empty category list gives no field.
extractDomainCatInfo_SkipEmpty(c, resp) ==
    LET r0 == <<>>
        r1 == IF c.Status
              THEN Append(r0, Fld("Status", Itoa(resp.Status))) ELSE r0
        r2 == IF c.Categories.SecurityCategories
                 /\ Len(resp.SecurityCategories) > 0
              THEN Append(r1, Fld("SecurityCategories",
                                  Join(resp.SecurityCategories, ", ")))
              ELSE r1
    IN  IF c.Categories.ContentCategories /\ Len(resp.ContentCategories) > 0
        THEN Append(r2, Fld("ContentCategories",
                            Join(resp.ContentCategories, ", ")))
        ELSE r2

extractDomainCatInfo(c, resp) ==
    LET r0 == <<>>
        r1 == IF c.Status
              THEN Append(r0, Fld("Status", Itoa(resp.Status))) ELSE r0
        r2 == IF c.Categories.SecurityCategories
              THEN Append(r1, Fld("SecurityCategories",
                                  Join(resp.SecurityCategories, ", ")))
              ELSE r1
    IN  IF c.Categories.ContentCategories
        THEN Append(r2, Fld("ContentCategories",
                            Join(resp.ContentCategories, ", ")))
        ELSE r2

\* Mutant: the colon follows the domain whether or not the score is on.
RECURSIVE domainScoreRows_AlwaysColon(_, _, _, _, _)
domainScoreRows_AlwaysColon(row, sc, resp, score, i) ==
    IF i > Len(resp) THEN row
    ELSE LET a == IF sc.Domain
                  THEN Append(row, resp[i].Domain \o ":")
                  ELSE IF sc.Score THEN Append(row, "") ELSE row
             b == IF sc.Score
                  THEN [a EXCEPT ![Len(a)] = @ \o score[i]]
                  ELSE a
         IN  domainScoreRows_AlwaysColon(b, sc, resp, score, i + 1)

\* The loop of extractRelatedDomainInfo / extractCooccurrenceInfo over the
\* entries from the i-th on: sc is the section's flags, score the text of
\* an entry's score.
RECURSIVE domainScoreRows(_, _, _, _, _)
domainScoreRows(row, sc, resp, score, i) ==
    IF i > Len(resp) THEN row
    ELSE LET a == IF sc.Domain
                  THEN Append(row, IF sc.Score THEN resp[i].Domain \o ":"
                                               ELSE resp[i].Domain)
                  ELSE IF sc.Score THEN Append(row, "") ELSE row
             b == IF sc.Score
                  THEN [a EXCEPT ![Len(a)] = @ \o score[i]]
                  ELSE a
         IN  domainScoreRows(b, sc, resp, score, i + 1)

\* Mutant: without the blank field for an empty response.
extractRelatedDomainInfo_NoBlank(c, resp) ==
    LET row == domainScoreRows(<<>>, c.Related, resp,
                   [i \in 1..Len(resp) |-> Itoa(resp[i].Score)], 1)
    IN  IF Len(row) = 0 THEN <<>>
        ELSE <<Fld("RelatedDomain", Join(row, ", "))>>

extractRelatedDomainInfo(c, resp) ==
    IF Len(resp) = 0 /\ any(c.Related, DomainScoreConfig)
    THEN <<Fld("RelatedDomain", "")>>
    ELSE LET row == domainScoreRows(<<>>, c.Related, resp,
                        [i \in 1..Len(resp) |-> Itoa(resp[i].Score)], 1)
         IN  IF Len(row) = 0 THEN <<>>
             ELSE <<Fld("RelatedDomain", Join(row, ", "))>>

extractCooccurrenceInfo(c, resp) ==
    IF Len(resp) = 0 /\ any(c.Cooccurrences, DomainScoreConfig)
    THEN <<Fld("Cooccurrence", "")>>
    ELSE LET row == domainScoreRows(<<>>, c.Cooccurrences, resp,
                        [i \in 1..Len(resp) |-> convertFloatToStr(resp[i].Score)], 1)
         IN  IF Len(row) = 0 THEN <<>>
             ELSE <<Fld("Cooccurrence", Join(row, ", "))>>

geoString(gs) ==
    Join([i \in 1..Len(gs) |->
            Join(<<gs[i].CountryCode, convertFloatToStr(gs[i].VisitRatio)>>, ":")],
         ", ")

extractSecurityFeaturesInfo(c, resp) ==
    LET r0 == <<>>
        r1 == appendIf(r0, Fld("DGAScore", convertFloatToStr(resp.DGAScore)), c.Security.DGAScore)
        r2 == appendIf(r1, Fld("Perplexity", convertFloatToStr(resp.Perplexity)), c.Security.Perplexity)
        r3 == appendIf(r2, Fld("Entropy", convertFloatToStr(resp.Entropy)), c.Security.Entropy)
        r4 == appendIf(r3, Fld("SecureRank2", convertFloatToStr(resp.SecureRank2)), c.Security.SecureRank2)
        r5 == appendIf(r4, Fld("PageRank", convertFloatToStr(resp.PageRank)), c.Security.PageRank)
        r6 == appendIf(r5, Fld("ASNScore", convertFloatToStr(resp.ASNScore)), c.Security.ASNScore)
        r7 == appendIf(r6, Fld("PrefixScore", convertFloatToStr(resp.PrefixScore)), c.Security.PrefixScore)
        r8 == appendIf(r7, Fld("RIPScore", convertFloatToStr(resp.RIPScore)), c.Security.RIPScore)
        r9 == appendIf(r8, Fld("Popularity", convertFloatToStr(resp.Popularity)), c.Security.Popularity)
        r10 == appendIf(r9, Fld("Fastflux", FormatBool(resp.Fastflux)), c.Security.Fastflux)
        r11 == appendIf(r10, Fld("Geodiversity", geoString(resp.Geodiversity)), c.Security.Geodiversity)
        r12 == appendIf(r11, Fld("GeodiversityNormalized", geoString(resp.GeodiversityNormalized)), c.Security.GeodiversityNormalized)
        r13 == appendIf(r12, Fld("TLDGeodiversity", geoString(resp.TLDGeodiversity)), c.Security.TLDGeodiversity)
        r14 == appendIf(r13, Fld("Geoscore", convertFloatToStr(resp.Geoscore)), c.Security.Geoscore)
        r15 == appendIf(r14, Fld("KSTest", convertFloatToStr(resp.KSTest)), c.Security.KSTest)
        r16 == appendIf(r15, Fld("Attack", resp.Attack), c.Security.Attack)
    IN  appendIf(r16, Fld("ThreatType", resp.ThreatType), c.Security.ThreatType)

\* Mutant: without the early return for an inactive section.
extractDomainTagInfo_NoGuard(c, resp) ==
    LET fieldStrs(dt) ==
            appendIf(appendIf(appendIf(appendIf(<<>>,
                dt.Url, c.TaggingDates.Url),
                dt.Category, c.TaggingDates.Category),
                dt.Period.Begin, c.TaggingDates.Begin),
                dt.Period.End, c.TaggingDates.End)
        all == [i \in 1..Len(resp) |-> fieldStrs(resp[i])]
        kept == SelectSeq(all, LAMBDA f : Len(f) # 0)
    IN  <<Fld("DomainTag",
              Join([i \in 1..Len(kept) |-> Join(kept[i], ":")], ", "))>>

\* Mutant: the sub-fields of a tag come in the order the flags are declared.
extractDomainTagInfo_DeclOrder(c, resp) ==
    IF ~any(c.TaggingDates, TaggingDatesConfig) THEN <<>>
    ELSE
    LET fieldStrs(dt) ==
            appendIf(appendIf(appendIf(appendIf(<<>>,
                dt.Period.Begin, c.TaggingDates.Begin),
                dt.Period.End, c.TaggingDates.End),
                dt.Category, c.TaggingDates.Category),
                dt.Url, c.TaggingDates.Url)
        all == [i \in 1..Len(resp) |-> fieldStrs(resp[i])]
        kept == SelectSeq(all, LAMBDA f : Len(f) # 0)
    IN  IF Len(kept) = 0
        THEN <<Fld("DomainTag", "")>>
        ELSE <<Fld("DomainTag",
                   Join([i \in 1..Len(kept) |-> Join(kept[i], ":")], ", "))>>

extractDomainTagInfo(c, resp) ==
    IF ~any(c.TaggingDates, TaggingDatesConfig) THEN <<>>
    ELSE
    LET fieldStrs(dt) ==
            appendIf(appendIf(appendIf(appendIf(<<>>,
                dt.Url, c.TaggingDates.Url),
                dt.Category, c.TaggingDates.Category),
                dt.Period.Begin, c.TaggingDates.Begin),
                dt.Period.End, c.TaggingDates.End)
        all == [i \in 1..Len(resp) |-> fieldStrs(resp[i])]
        kept == SelectSeq(all, LAMBDA f : Len(f) # 0)
    IN  IF Len(kept) = 0 /\ any(c.TaggingDates, TaggingDatesConfig)
        THEN <<Fld("DomainTag", "")>>
        ELSE <<Fld("DomainTag",
                   Join([i \in 1..Len(kept) |-> Join(kept[i], ":")], ", "))>>

locsToStr(locs) ==
    Join([i \in 1..Len(locs) |->
            Join(<<convertFloatToStr(locs[i].Lat),
                   convertFloatToStr(locs[i].Lon)>>, ":")],
         ", ")

\* The strings of one period: one per resource record that has any field.
periodStrs(c, p) ==
    LET P == c.DomainRRHistory.Periods
        flStrs == appendIf(appendIf(<<>>, p.FirstSeen, P.FirstSeen),
                           p.LastSeen, P.LastSeen)
        rrStrs(rr) ==
            appendIf(appendIf(appendIf(appendIf(appendIf(<<>>,
                rr.Name, P.Name),
                Itoa(rr.TTL), P.TTL),
                rr.Class, P.Class),
                rr.Type, P.Type),
                rr.RR, P.RR)
        flrr == [j \in 1..Len(p.RRs) |-> flStrs \o rrStrs(p.RRs[j])]
        kept == SelectSeq(flrr, LAMBDA f : Len(f) # 0)
    IN  [j \in 1..Len(kept) |-> Join(kept[j], ":")]

RECURSIVE allPeriodStrs(_, _, _)
allPeriodStrs(c, periods, i) ==
    IF i > Len(periods) THEN <<>>
    ELSE periodStrs(c, periods[i]) \o allPeriodStrs(c, periods, i + 1)

rrPeriodsToStr(c, periods) == Join(allPeriodStrs(c, periods, 1), ", ")

extractDomainRRHistoryInfo(c, resp) ==
    LET asnStrs == [i \in 1..Len(resp.RRFeatures.ASNs) |->
                        Itoa(resp.RRFeatures.ASNs[i])]
        r0 == IF any(c.DomainRRHistory.Periods, DomainRRHistoryPeriodConfig)
              THEN <<Fld("RRPeriods", rrPeriodsToStr(c, resp.RRPeriods))>>
              ELSE <<>>
        r1 == appendIf(r0, Fld("Age", Itoa(resp.RRFeatures.Age)), c.DomainRRHistory.Features.Age)
        r2 == appendIf(r1, Fld("TTLsMin", Itoa(resp.RRFeatures.TTLsMin)), c.DomainRRHistory.Features.TTLsMin)
        r3 == appendIf(r2, Fld("TTLsMax", Itoa(resp.RRFeatures.TTLsMax)), c.DomainRRHistory.Features.TTLsMax)
        r4 == appendIf(r3, Fld("TTLsMean", convertFloatToStr(resp.RRFeatures.TTLsMean)), c.DomainRRHistory.Features.TTLsMean)
        r5 == appendIf(r4, Fld("TTLsMedian", convertFloatToStr(resp.RRFeatures.TTLsMedian)), c.DomainRRHistory.Features.TTLsMedian)
        r6 == appendIf(r5, Fld("TTLsStdDev", convertFloatToStr(resp.RRFeatures.TTLsStdDev)), c.DomainRRHistory.Features.TTLsStdDev)
        r7 == appendIf(r6, Fld("CountryCodes", Join(resp.RRFeatures.CountryCodes, ", ")), c.DomainRRHistory.Features.CountryCodes)
        r8 == appendIf(r7, Fld("ASNs", Join(asnStrs, ", ")), c.DomainRRHistory.Features.ASNs)
        r9 == appendIf(r8, Fld("Prefixes", Join(resp.RRFeatures.Prefixes, ", ")), c.DomainRRHistory.Features.Prefixes)
        r10 == appendIf(r9, Fld("RIPSCount", Itoa(resp.RRFeatures.RIPSCount)), c.DomainRRHistory.Features.RIPSCount)
        r11 == appendIf(r10, Fld("RIPSDiversity", convertFloatToStr(resp.RRFeatures.RIPSDiversity)), c.DomainRRHistory.Features.RIPSDiversity)
        r12 == appendIf(r11, Fld("Locations", locsToStr(resp.RRFeatures.Locations)), c.DomainRRHistory.Features.Locations)
        r13 == appendIf(r12, Fld("GeoDistanceSum", convertFloatToStr(resp.RRFeatures.GeoDistanceSum)), c.DomainRRHistory.Features.GeoDistanceSum)
        r14 == appendIf(r13, Fld("GeoDistanceMean", convertFloatToStr(resp.RRFeatures.GeoDistanceMean)), c.DomainRRHistory.Features.GeoDistanceMean)
        r15 == appendIf(r14, Fld("NonRoutable", FormatBool(resp.RRFeatures.NonRoutable)), c.DomainRRHistory.Features.NonRoutable)
        r16 == appendIf(r15, Fld("MailExchanger", FormatBool(resp.RRFeatures.MailExchanger)), c.DomainRRHistory.Features.MailExchanger)
        r17 == appendIf(r16, Fld("CName", FormatBool(resp.RRFeatures.CName)), c.DomainRRHistory.Features.CName)
        r18 == appendIf(r17, Fld("FFCandidate", FormatBool(resp.RRFeatures.FFCandidate)), c.DomainRRHistory.Features.FFCandidate)
        r19 == appendIf(r18, Fld("RIPSStability", convertFloatToStr(resp.RRFeatures.RIPSStability)), c.DomainRRHistory.Features.RIPSStability)
        r20 == appendIf(r19, Fld("BaseDomain", resp.RRFeatures.BaseDomain), c.DomainRRHistory.Features.BaseDomain)
    IN  appendIf(r20, Fld("IsSubdomain", FormatBool(resp.RRFeatures.IsSubdomain)),
                 c.DomainRRHistory.Features.IsSubdomain)

\* ExtractCSVSubRow: the type switch.  The result is [row, err].
ExtractCSVSubRow(c, goinvResp) ==
    CASE goinvResp.type = "*DomainCategorization" ->
            [row |-> extractDomainCatInfo(c, goinvResp), err |-> "nil"]
      [] goinvResp.type = "[]RelatedDomain" ->
            [row |-> extractRelatedDomainInfo(c, goinvResp.list), err |-> "nil"]
      [] goinvResp.type = "[]Cooccurrence" ->
            [row |-> extractCooccurrenceInfo(c, goinvResp.list), err |-> "nil"]
      [] goinvResp.type = "*SecurityFeatures" ->
            [row |-> extractSecurityFeaturesInfo(c, goinvResp), err |-> "nil"]
      [] goinvResp.type = "[]DomainTag" ->
            [row |-> extractDomainTagInfo(c, goinvResp.list), err |-> "nil"]
      [] goinvResp.type = "*DomainRRHistory" ->
            [row |-> extractDomainRRHistoryInfo(c, goinvResp), err |-> "nil"]
      [] OTHER -> [row |-> <<>>, err |-> "invalid type"]

(***************************************************************************)
(* Response payloads the remote API can return, by Go type.  Collections   *)
(* have 0..MaxEntries entries.                                             *)
(***************************************************************************)
MaxEntries == 2

Float(m, e) == [m |-> m, e |-> e]

DomainCategorizations ==
    { [type |-> "*DomainCategorization", Status |-> 1,
       SecurityCategories |-> <<"Malware", "Botnet", "Trojan">>,
       ContentCategories |-> <<"8", "15", "23">>],
      [type |-> "*DomainCategorization", Status |-> -1,
       SecurityCategories |-> <<>>, ContentCategories |-> <<>>] }

RelatedDomainList(n) ==
    [type |-> "[]RelatedDomain",
     list |-> [i \in 1..n |->
                [Domain |-> "www.example" \o ToString(i) \o ".com",
                 Score |-> 11 - i]]]

CooccurrenceList(n) ==
    [type |-> "[]Cooccurrence",
     list |-> [i \in 1..n |->
                [Domain |-> "download" \o ToString(i) \o ".example.com",
                 Score |-> Float(9320 - 17 * i, 4)]]]

GeoFeaturesList(n) ==
    [i \in 1..n |-> [CountryCode |-> IF i = 1 THEN "UA" ELSE "IN",
                     VisitRatio |-> Float(24074 + i, 5)]]

SecurityFeatures(n) ==
    [type |-> "*SecurityFeatures",
     DGAScore |-> Float(38301 * n, 3), Perplexity |-> Float(4540 * n, 4),
     Entropy |-> Float(25 * n, 1), SecureRank2 |-> Float(-1 * n, 0),
     PageRank |-> Float(n, 1), ASNScore |-> Float(-2910 * n, 2),
     PrefixScore |-> Float(-6425 * n, 2), RIPScore |-> Float(-7570 * n, 2),
     Popularity |-> Float(100 * n, 0), Fastflux |-> n > 1,
     Geodiversity |-> GeoFeaturesList(n),
     GeodiversityNormalized |-> GeoFeaturesList(n),
     TLDGeodiversity |-> GeoFeaturesList(0),
     Geoscore |-> Float(0, 0), KSTest |-> Float(0, 0),
     Attack |-> IF n = 0 THEN "" ELSE "Neutrino",
     ThreatType |-> IF n = 0 THEN "" ELSE "Exploit Kit"]

DomainTagList(n) ==
    [type |-> "[]DomainTag",
     list |-> [i \in 1..n |->
                [Url |-> "http://example.com/" \o ToString(i),
                 Category |-> "Malware",
                 Period |-> [Begin |-> "2013-09-1" \o ToString(i),
                             End |-> "Current"]]]]

ResourceRecords(n) ==
    [j \in 1..n |-> [Name |-> "example.com.", TTL |-> 86400 * j,
                     Class |-> "IN", Type |-> "A",
                     RR |-> "93.184.216." \o ToString(118 + j)]]

DomainRRHistory(n) ==
    [type |-> "*DomainRRHistory",
     RRPeriods |-> [i \in 1..n |->
                     [FirstSeen |-> "2013-07-3" \o ToString(i),
                      LastSeen |-> "2013-10-17",
                      RRs |-> ResourceRecords(i)]],
     RRFeatures |->
       [Age |-> 91 * n, TTLsMin |-> 86400 * n, TTLsMax |-> 172800 * n,
        TTLsMean |-> Float(129600 * n, 0), TTLsMedian |-> Float(129600 * n, 0),
        TTLsStdDev |-> Float(43200 * n, 0),
        CountryCodes |-> [i \in 1..n |-> IF i = 1 THEN "US" ELSE "DE"],
        ASNs |-> [i \in 1..n |-> 15133 + i],
        Prefixes |-> [i \in 1..n |-> "93.184.20" \o ToString(i) \o ".0"],
        RIPSCount |-> n, RIPSDiversity |-> Float(10 * n, 1),
        Locations |-> [i \in 1..n |-> [Lat |-> Float(380 * i, 1),
                                       Lon |-> Float(-1182987 * i, 4)]],
        GeoDistanceSum |-> Float(19701616 * n, 4),
        GeoDistanceMean |-> Float(9850808 * n, 4),
        NonRoutable |-> FALSE, MailExchanger |-> FALSE, CName |-> n > 1,
        FFCandidate |-> FALSE, RIPSStability |-> Float(5 * n, 1),
        BaseDomain |-> IF n = 0 THEN "" ELSE "example.com",
        IsSubdomain |-> FALSE]]

\* A payload of none of the six types.
InvalidResponse == [type |-> "nil"]

Sizes == 0..MaxEntries

\* The payloads by the API client method that returns them.
ApiResponses(method) ==
    CASE method = "Categorization" -> DomainCategorizations
      [] method = "RelatedDomains" -> {RelatedDomainList(n) : n \in Sizes}
      [] method = "Cooccurrences" -> {CooccurrenceList(n) : n \in Sizes}
      [] method = "Security" -> {SecurityFeatures(n) : n \in Sizes}
      [] method = "DomainTags" -> {DomainTagList(n) : n \in Sizes}
      [] method = "DomainRRHistory" -> {DomainRRHistory(n) : n \in Sizes}

ApiMethods == {"Categorization", "RelatedDomains", "Cooccurrences",
               "Security", "DomainTags", "DomainRRHistory"}

Responses == UNION {ApiResponses(m) : m \in ApiMethods} \cup {InvalidResponse}

(***************************************************************************)
(* The configurations checked: every configuration with at most            *)
(* MaxTrueFlags flags on, and every one with at most MaxOffFlags flags off.*)
(***************************************************************************)
RECURSIVE FlagSets(_)
FlagSets(k) ==
    IF k = 0 THEN {{}}
    ELSE LET p == FlagSets(k - 1)
         IN  p \cup {s \cup {f} : s \in p, f \in AllFlags}

Configs ==
    {Config(S) : S \in FlagSets(MaxTrueFlags)}
    \cup {Config(AllFlags \ S) : S \in FlagSets(MaxOffFlags)}

\* The value of leaf f = <<section, field>> of configuration c.
Leaf(c, f) ==
    CASE f[1] = "Status" -> c.Status
      [] f[1] = "Categories" -> c.Categories[f[2]]
      [] f[1] = "Cooccurrences" -> c.Cooccurrences[f[2]]
      [] f[1] = "Related" -> c.Related[f[2]]
      [] f[1] = "Security" -> c.Security[f[2]]
      [] f[1] = "TaggingDates" -> c.TaggingDates[f[2]]
      [] f[1] = "Periods" -> c.DomainRRHistory.Periods[f[2]]
      [] f[1] = "Features" -> c.DomainRRHistory.Features[f[2]]

\* Whether some leaf of one of the sections is true in c.
Active(c, sections) == \E f \in AllFlags : f[1] \in sections /\ Leaf(c, f)

(***************************************************************************)
(* The pipeline of main.go.                                                *)
(***************************************************************************)
\* Bounds: the number of input domains, and the size of each of the two
\* goroutine pools (DEFAULT_MAX_GOROUTINES in the program).
MaxDomains == 2
Goroutines == 2

\* Channel capacities.
DomainChanCap == 100
OutChanCap == 100
\* Mutant: the response channels are unbuffered.
RespChanCap_Unbuffered == Len(<<>>)

RespChanCap == 1

\* The domain-list file: one domain per line.
DomainList == [i \in 1..MaxDomains |-> "d" \o ToString(i) \o ".com"]

\* The configurations the pipeline is run with.
PipeFlagSets ==
    { {},
      {<<"Categories", "Labels">>},
      {<<"Cooccurrences", "Domain">>},
      {<<"Status", "Status">>, <<"Security", "DGAScore">>},
      {<<"Cooccurrences", "Score">>, <<"Related", "Domain">>} }

PipeConfigs == {Config(S) : S \in PipeFlagSets}

\* The API client method each query type calls (domain_query.go).
ApiMethod(q) ==
    CASE q = "CategorizationQuery" -> "Categorization"
      [] q = "RelatedQuery" -> "RelatedDomains"
      [] q = "CooccurrencesQuery" -> "RelatedDomains"
      [] q = "SecurityQuery" -> "Security"
      [] q = "DomainTagsQuery" -> "DomainTags"
      [] q = "DomainRRHistoryQuery" -> "DomainRRHistory"

DomainQueryResponse(resp, e) == [Resp |-> resp, Err |-> e]

\* The remote service holds MaxEntries entries for the first domain of the
\* list, one entry less for the next, and so on down to none.
RemoteSize(domain) ==
    LET k == CHOOSE i \in 1..MaxDomains : DomainList[i] = domain
    IN  IF k > MaxEntries THEN 0 ELSE MaxEntries + 1 - k

RemoteData(method, domain) ==
    CASE method = "Categorization" ->
            CHOOSE r \in DomainCategorizations :
                (Len(r.SecurityCategories) = 0) = (RemoteSize(domain) = 0)
      [] method = "RelatedDomains" -> RelatedDomainList(RemoteSize(domain))
      [] method = "Cooccurrences" -> CooccurrenceList(RemoteSize(domain))
      [] method = "Security" -> SecurityFeatures(RemoteSize(domain))
      [] method = "DomainTags" -> DomainTagList(RemoteSize(domain))
      [] method = "DomainRRHistory" -> DomainRRHistory(RemoteSize(domain))

\* m.Q.Query(): what the remote call of message m can return: the data of
\* its API method for the domain, or an error.
Query(m) ==
    { DomainQueryResponse(RemoteData(ApiMethod(m.Q), m.Domain), "nil"),
      DomainQueryResponse(InvalidResponse, "error") }

NoMsg == [Q |-> "none"]
NoResp == [Resp |-> InvalidResponse, Err |-> "none"]

ProcStart ==
    [pc |-> "range", domain |-> "", queries |-> <<>>, i |-> 1, row |-> <<>>]

WorkerStart == [pc |-> "range", m |-> NoMsg]

\* Goroutines have no identity: a pool is the bag of its goroutines' states.
Copies(x, n) == IF n = 0 THEN EmptyBag ELSE [e \in {x} |-> n]
Put(b, x) == b (+) SetToBag({x})
Take(b, x) == b (-) SetToBag({x})
Move(b, x, y) == Put(Take(b, x), y)

\* The state of the harness of the pure functions while the pipeline runs.
PureIdle ==
    /\ op = "none"
    /\ arg = InvalidResponse
    /\ out = <<>>
    /\ err = "nil"

\* The state of the pipeline when main has started every goroutine.
PipeStart ==
    /\ input = DomainList
    /\ reader = "scan"
    /\ domainChan = <<>>
    /\ domainClosed = FALSE
    /\ numDomains = 0
    /\ proc = Copies(ProcStart, Goroutines)
    /\ qw = Copies(WorkerStart, Goroutines)
    /\ respChan = <<>>
    /\ qClosed = FALSE
    /\ outChan = <<>>
    /\ outClosed = FALSE
    /\ wg = Goroutines
    /\ closer = "wait"
    /\ writer = "range"
    /\ written = <<>>
    /\ log = {}

Init ==
    /\ config \in PipeConfigs
    /\ PureIdle
    /\ PipeStart

(* readDomainsFrom: the reading goroutine. *)
ReaderSend ==
    /\ reader = "scan"
    /\ Len(input) > 0
    /\ Len(domainChan) < DomainChanCap
    /\ domainChan' = Append(domainChan, Head(input))
    /\ input' = Tail(input)
    /\ reader' = "count"
    /\ UNCHANGED <<config, op, arg, out, err, domainClosed, numDomains, proc,
                   qw, respChan, qClosed, outChan, outClosed, wg, closer,
                   writer, written, log>>

ReaderCount ==
    /\ reader = "count"
    /\ numDomains' = numDomains + 1
    /\ reader' = "scan"
    /\ UNCHANGED <<config, op, arg, out, err, input, domainChan, domainClosed,
                   proc, qw, respChan, qClosed, outChan, outClosed, wg,
                   closer, writer, written, log>>

ReaderClose ==
    /\ reader = "scan"
    /\ Len(input) = 0
    /\ domainClosed' = TRUE
    /\ reader' = "done"
    /\ UNCHANGED <<config, op, arg, out, err, input, domainChan, numDomains,
                   proc, qw, respChan, qClosed, outChan, outClosed, wg,
                   closer, writer, written, log>>

\* A response channel as made by DeriveMessages: its buffer, and for the
\* record the message it was made for, the result of its query, and whether
\* that result came after the result of a query planned later for the domain.
NewChan(m) == [msg |-> m, buf |-> <<>>, res |-> NoResp, late |-> FALSE]

\* The first row of a domain.
FirstRow(domain) == <<Fld("Domain", domain)>>

(* process: for domain := range domainChan, up to the first send. *)
ProcRecvDomain(p) ==
    /\ p.pc = "range"
    /\ Len(domainChan) > 0
    /\ LET domain == Head(domainChan)
           queries == DeriveMessages(config, domain, Len(respChan) + 1)
       IN  /\ domainChan' = Tail(domainChan)
           /\ respChan' = respChan \o [k \in 1..Len(queries) |-> NewChan(queries[k])]
           /\ proc' = Move(proc, p,
                        [pc |-> IF Len(queries) = 0 THEN "push" ELSE "send",
                         domain |-> domain, queries |-> queries, i |-> 1,
                         row |-> FirstRow(domain)])
    /\ UNCHANGED <<config, op, arg, out, err, input, reader, domainClosed,
                   numDomains, qw, qClosed, outChan, outClosed, wg, closer,
                   writer, written, log>>

\* Mutant: the loop ends as soon as the domain channel is empty.
ProcDone_OnEmpty(p) ==
    /\ p.pc = "range"
    /\ Len(domainChan) = 0
    /\ proc' = Move(proc, p, [p EXCEPT !.pc = "done"])
    /\ wg' = wg - 1
    /\ UNCHANGED <<config, op, arg, out, err, input, reader, domainChan,
                   domainClosed, numDomains, qw, respChan, qClosed, outChan,
                   outClosed, closer, writer, written, log>>

(* process: the range loop ends; wg.Done(). *)
ProcDone(p) ==
    /\ p.pc = "range"
    /\ Len(domainChan) = 0
    /\ domainClosed
    /\ proc' = Move(proc, p, [p EXCEPT !.pc = "done"])
    /\ wg' = wg - 1
    /\ UNCHANGED <<config, op, arg, out, err, input, reader, domainChan,
                   domainClosed, numDomains, qw, respChan, qClosed, outChan,
                   outClosed, closer, writer, written, log>>

(* process: qChan <- q, taken by query worker w (qChan is unbuffered, so  *)
(* the send and the receive of `for m := range qChan` are one step).       *)
ProcSendQuery(p, w) ==
    /\ p.pc = "send"
    /\ w.pc = "range"
    /\ ~qClosed
    /\ qw' = Move(qw, w, [pc |-> "call", m |-> p.queries[p.i]])
    /\ proc' = Move(proc, p,
                    IF p.i = Len(p.queries)
                    THEN [p EXCEPT !.pc = "recv", !.i = 1]
                    ELSE [p EXCEPT !.i = p.i + 1])
    /\ UNCHANGED <<config, op, arg, out, err, input, reader, domainChan,
                   domainClosed, numDomains, respChan, qClosed, outChan,
                   outClosed, wg, closer, writer, written, log>>

\* The log line of an abandoned domain.
SkipLine(domain, e) == [domain |-> domain, err |-> e]

\* Mutant: an error result is fatal (log.Fatalf): every goroutine stops.
ProcRecvResult_Fatal(p) ==
    /\ p.pc = "recv"
    /\ LET ch == p.queries[p.i].RespChan
       IN  /\ Len(respChan[ch].buf) > 0
           /\ LET qmResp == Head(respChan[ch].buf)
                  sub == ExtractCSVSubRow(config, qmResp.Resp)
                  row == IF sub.err # "nil" THEN p.row ELSE p.row \o sub.row
              IN  /\ respChan' = [respChan EXCEPT ![ch].buf = Tail(@)]
                  /\ IF qmResp.Err # "nil"
                     THEN /\ log' = log \cup {SkipLine(p.domain, qmResp.Err)}
                          /\ proc' = Copies([ProcStart EXCEPT !.pc = "done"],
                                            Goroutines)
                     ELSE /\ log' = log
                          /\ proc' = Move(proc, p,
                                       IF p.i = Len(p.queries)
                                       THEN [p EXCEPT !.pc = "push", !.row = row]
                                       ELSE [p EXCEPT !.i = p.i + 1, !.row = row])
    /\ UNCHANGED <<config, op, arg, out, err, input, reader, domainChan,
                   domainClosed, numDomains, qw, qClosed, outChan, outClosed,
                   wg, closer, writer, written>>

\* Mutant: an error result is logged and the inner loop goes on.
ProcRecvResult_Continue(p) ==
    /\ p.pc = "recv"
    /\ LET ch == p.queries[p.i].RespChan
       IN  /\ Len(respChan[ch].buf) > 0
           /\ LET qmResp == Head(respChan[ch].buf)
                  sub == ExtractCSVSubRow(config, qmResp.Resp)
                  row == IF qmResp.Err # "nil" \/ sub.err # "nil"
                         THEN p.row ELSE p.row \o sub.row
              IN  /\ respChan' = [respChan EXCEPT ![ch].buf = Tail(@)]
                  /\ log' = IF qmResp.Err # "nil"
                            THEN log \cup {SkipLine(p.domain, qmResp.Err)}
                            ELSE log
                  /\ proc' = Move(proc, p,
                               IF p.i = Len(p.queries)
                               THEN [p EXCEPT !.pc = "push", !.row = row]
                               ELSE [p EXCEPT !.i = p.i + 1, !.row = row])
    /\ UNCHANGED <<config, op, arg, out, err, input, reader, domainChan,
                   domainClosed, numDomains, qw, qClosed, outChan, outClosed,
                   wg, closer, writer, written>>

\* Mutant: the extraction switches off the flags of the configuration.
ProcRecvResult_Mutating(p) ==
    /\ p.pc = "recv"
    /\ LET ch == p.queries[p.i].RespChan
       IN  /\ Len(respChan[ch].buf) > 0
           /\ LET qmResp == Head(respChan[ch].buf)
                  sub == ExtractCSVSubRow(config, qmResp.Resp)
                  row == IF sub.err # "nil" THEN p.row ELSE p.row \o sub.row
              IN  /\ respChan' = [respChan EXCEPT ![ch].buf = Tail(@)]
                  /\ IF qmResp.Err # "nil"
                     THEN /\ log' = log \cup {SkipLine(p.domain, qmResp.Err)}
                          /\ proc' = Move(proc, p, ProcStart)
                          /\ config' = config
                     ELSE /\ log' = log
                          /\ proc' = Move(proc, p,
                                       IF p.i = Len(p.queries)
                                       THEN [p EXCEPT !.pc = "push", !.row = row]
                                       ELSE [p EXCEPT !.i = p.i + 1, !.row = row])
                          /\ config' = Config({})
    /\ UNCHANGED <<op, arg, out, err, input, reader, domainChan,
                   domainClosed, numDomains, qw, qClosed, outChan, outClosed,
                   wg, closer, writer, written>>

(* process: qmResp := <-q.RespChan and the rest of the loop body. *)
ProcRecvResult(p) ==
    /\ p.pc = "recv"
    /\ LET ch == p.queries[p.i].RespChan
       IN  /\ Len(respChan[ch].buf) > 0
           /\ LET qmResp == Head(respChan[ch].buf)
                  sub == ExtractCSVSubRow(config, qmResp.Resp)
                  row == IF sub.err # "nil" THEN p.row ELSE p.row \o sub.row
              IN  /\ respChan' = [respChan EXCEPT ![ch].buf = Tail(@)]
                  /\ IF qmResp.Err # "nil"
                     THEN /\ log' = log \cup {SkipLine(p.domain, qmResp.Err)}
                          /\ proc' = Move(proc, p, ProcStart)
                     ELSE /\ log' = log
                          /\ proc' = Move(proc, p,
                                       IF p.i = Len(p.queries)
                                       THEN [p EXCEPT !.pc = "push", !.row = row]
                                       ELSE [p EXCEPT !.i = p.i + 1, !.row = row])
    /\ UNCHANGED <<config, op, arg, out, err, input, reader, domainChan,
                   domainClosed, numDomains, qw, qClosed, outChan, outClosed,
                   wg, closer, writer, written>>

\* Mutant: the row is put on the output stream at the place of its domain
\* in the input, before the rows of later domains that wait there.
ProcPushRow_InputOrder(p) ==
    /\ p.pc = "push"
    /\ Len(outChan) < OutChanCap
    /\ ~outClosed
    /\ LET pos(d) == CHOOSE i \in 1..MaxDomains : DomainList[i] = d
           before == SelectSeq(outChan, LAMBDA r : pos(r[1].val) < pos(p.domain))
           after == SelectSeq(outChan, LAMBDA r : pos(r[1].val) >= pos(p.domain))
       IN  outChan' = before \o <<p.row>> \o after
    /\ proc' = Move(proc, p, ProcStart)
    /\ UNCHANGED <<config, op, arg, out, err, input, reader, domainChan,
                   domainClosed, numDomains, qw, respChan, qClosed, outClosed,
                   wg, closer, writer, written, log>>

(* process: outChan <- row. *)
ProcPushRow(p) ==
    /\ p.pc = "push"
    /\ Len(outChan) < OutChanCap
    /\ ~outClosed
    /\ outChan' = Append(outChan, p.row)
    /\ proc' = Move(proc, p, ProcStart)
    /\ UNCHANGED <<config, op, arg, out, err, input, reader, domainChan,
                   domainClosed, numDomains, qw, respChan, qClosed, outClosed,
                   wg, closer, writer, written, log>>

\* Whether a query made after m for the same domain has returned already.
LaterReturned(m) ==
    \E ch \in 1..Len(respChan) :
        /\ ch > m.RespChan
        /\ respChan[ch].msg.Domain = m.Domain
        /\ respChan[ch].res.Err # "none"

\* Mutant: the worker makes the remote call of a message a second time.
WorkerReturn_Twice(w) ==
    /\ w.pc = "call"
    /\ Len(respChan[w.m.RespChan].buf) < RespChanCap
    /\ \E r \in Query(w.m) :
        respChan' = [respChan EXCEPT ![w.m.RespChan] =
                        [@ EXCEPT !.buf = Append(@, r), !.res = r,
                                  !.late = LaterReturned(w.m)]]
    /\ qw' = IF respChan[w.m.RespChan].res.Err = "none"
             THEN qw ELSE Move(qw, w, WorkerStart)
    /\ UNCHANGED <<config, op, arg, out, err, input, reader, domainChan,
                   domainClosed, numDomains, proc, qClosed, outChan, outClosed,
                   wg, closer, writer, written, log>>

(* query: m.RespChan <- m.Q.Query(): the remote call returns and its     *)
(* result is sent on the message's response channel.                       *)
WorkerReturn(w) ==
    /\ w.pc = "call"
    /\ Len(respChan[w.m.RespChan].buf) < RespChanCap
    /\ \E r \in Query(w.m) :
        respChan' = [respChan EXCEPT ![w.m.RespChan] =
                        [@ EXCEPT !.buf = Append(@, r), !.res = r,
                                  !.late = LaterReturned(w.m)]]
    /\ qw' = Move(qw, w, WorkerStart)
    /\ UNCHANGED <<config, op, arg, out, err, input, reader, domainChan,
                   domainClosed, numDomains, proc, qClosed, outChan, outClosed,
                   wg, closer, writer, written, log>>

(* query: the range over qChan ends. *)
WorkerDone(w) ==
    /\ w.pc = "range"
    /\ qClosed
    /\ qw' = Move(qw, w, [w EXCEPT !.pc = "done"])
    /\ UNCHANGED <<config, op, arg, out, err, input, reader, domainChan,
                   domainClosed, numDomains, proc, respChan, qClosed, outChan,
                   outClosed, wg, closer, writer, written, log>>

\* Mutant: the closer does not wait for the processors.
CloserCloseQ_Early ==
    /\ closer = "wait"
    /\ qClosed' = TRUE
    /\ closer' = "closeOut"
    /\ UNCHANGED <<config, op, arg, out, err, input, reader, domainChan,
                   domainClosed, numDomains, proc, qw, respChan, outChan,
                   outClosed, wg, writer, written, log>>

\* Mutant: the query channel is left open.
CloserCloseQ_LeftOpen ==
    /\ closer = "wait"
    /\ wg = 0
    /\ closer' = "closeOut"
    /\ UNCHANGED <<config, op, arg, out, err, input, reader, domainChan,
                   domainClosed, numDomains, proc, qw, respChan, qClosed,
                   outChan, outClosed, wg, writer, written, log>>

(* getInfo's closing goroutine: wg.Wait(); close(qChan). *)
CloserCloseQ ==
    /\ closer = "wait"
    /\ wg = 0
    /\ qClosed' = TRUE
    /\ closer' = "closeOut"
    /\ UNCHANGED <<config, op, arg, out, err, input, reader, domainChan,
                   domainClosed, numDomains, proc, qw, respChan, outChan,
                   outClosed, wg, writer, written, log>>

(* getInfo's closing goroutine: close(outChan). *)
CloserCloseOut ==
    /\ closer = "closeOut"
    /\ outClosed' = TRUE
    /\ closer' = "done"
    /\ UNCHANGED <<config, op, arg, out, err, input, reader, domainChan,
                   domainClosed, numDomains, proc, qw, respChan, qClosed,
                   outChan, wg, writer, written, log>>

(* writeOut: one iteration of the range over outChan. *)
WriterRecv ==
    /\ writer = "range"
    /\ Len(outChan) > 0
    /\ written' = Append(written, Head(outChan))
    /\ outChan' = Tail(outChan)
    /\ UNCHANGED <<config, op, arg, out, err, input, reader, domainChan,
                   domainClosed, numDomains, proc, qw, respChan, qClosed,
                   outClosed, wg, closer, writer, log>>

(* writeOut: the range ends; wg.Done(). *)
WriterDone ==
    /\ writer = "range"
    /\ Len(outChan) = 0
    /\ outClosed
    /\ writer' = "done"
    /\ UNCHANGED <<config, op, arg, out, err, input, reader, domainChan,
                   domainClosed, numDomains, proc, qw, respChan, qClosed,
                   outChan, outClosed, wg, closer, written, log>>

Procs == BagToSet(proc)
Workers == BagToSet(qw)

Next ==
    \/ ReaderSend
    \/ ReaderCount
    \/ ReaderClose
    \/ \E p \in Procs : ProcRecvDomain(p)
    \/ \E p \in Procs : ProcDone(p)
    \/ \E p \in Procs, w \in Workers : ProcSendQuery(p, w)
    \/ \E p \in Procs : ProcRecvResult(p)
    \/ \E p \in Procs : ProcPushRow(p)
    \/ \E w \in Workers : WorkerReturn(w)
    \/ \E w \in Workers : WorkerDone(w)
    \/ CloserCloseQ
    \/ CloserCloseOut
    \/ WriterRecv
    \/ WriterDone

Spec == Init /\ [][Next]_vars

\* A goroutine that can take a step eventually takes one, and every remote
\* call returns.  Every run is finite, so this is weak fairness of Next.
Fairness == WF_vars(Next)

SpecLive == Spec /\ Fairness

(***************************************************************************)
(* main: the steps before the pipeline runs.  The domain reader is started *)
(* first (readDomainsFrom), then the header is written, then getInfo       *)
(* starts the two pools and the closer, and writeOut is started.  The run  *)
(* modelled is one with an output file (-out).                             *)
(***************************************************************************)
\* The header as a record of the output file.
HeaderRow(c) ==
    LET header == DeriveHeader(c)
    IN  [k \in 1..Len(header) |-> Fld("Header", header[k])]

\* The state when readDomainsFrom has returned: only the reader runs.
InitMain ==
    /\ config \in PipeConfigs
    /\ PureIdle
    /\ input = DomainList
    /\ reader = "scan"
    /\ domainChan = <<>>
    /\ domainClosed = FALSE
    /\ numDomains = 0
    /\ proc = EmptyBag
    /\ qw = EmptyBag
    /\ respChan = <<>>
    /\ qClosed = FALSE
    /\ outChan = <<>>
    /\ outClosed = FALSE
    /\ wg = 0
    /\ closer = "none"
    /\ writer = "main"
    /\ written = <<>>
    /\ log = {}

\* Mutant: main goes on without writing the header.
MainWriteHeader_Skipped ==
    /\ writer = "main"
    /\ writer' = "getInfo"
    /\ UNCHANGED <<config, op, arg, out, err, input, reader, domainChan,
                   domainClosed, numDomains, proc, qw, respChan, qClosed,
                   outChan, outClosed, wg, closer, written, log>>

(* main: outWriter.Write(config.DeriveHeader()). *)
MainWriteHeader ==
    /\ writer = "main"
    /\ written' = Append(written, HeaderRow(config))
    /\ writer' = "getInfo"
    /\ UNCHANGED <<config, op, arg, out, err, input, reader, domainChan,
                   domainClosed, numDomains, proc, qw, respChan, qClosed,
                   outChan, outClosed, wg, closer, log>>

(* main: getInfo starts the query workers, the processors and the closer; *)
(* then go writeOut.                                                       *)
MainGetInfo ==
    /\ writer = "getInfo"
    /\ qw' = Copies(WorkerStart, Goroutines)
    /\ proc' = Copies(ProcStart, Goroutines)
    /\ wg' = Goroutines
    /\ closer' = "wait"
    /\ writer' = "range"
    /\ UNCHANGED <<config, op, arg, out, err, input, reader, domainChan,
                   domainClosed, numDomains, respChan, qClosed, outChan,
                   outClosed, written, log>>

NextMain ==
    \/ MainWriteHeader
    \/ MainGetInfo
    \/ Next

SpecMain == InitMain /\ [][NextMain]_vars

(***************************************************************************)
(* lib/config.go: the one-file version of the library that the repository  *)
(* also holds.  Its extractDomainTagInfo differs from the one above.       *)
(***************************************************************************)
extractDomainTagInfo_lib_config(c, resp) ==
    LET fieldStrs(dt) ==
            appendIf(appendIf(appendIf(appendIf(<<>>,
                dt.Url, c.TaggingDates.Url),
                dt.Category, c.TaggingDates.Category),
                dt.Period.Begin, c.TaggingDates.Begin),
                dt.Period.End, c.TaggingDates.End)
        all == [i \in 1..Len(resp) |-> fieldStrs(resp[i])]
        kept == SelectSeq(all, LAMBDA f : Len(f) # 0)
        dtStrs == [i \in 1..Len(kept) |-> Fld("DomainTag", Join(kept[i], ":"))]
    IN  IF Len(dtStrs) = 0 /\ any(c.TaggingDates, TaggingDatesConfig)
        THEN <<Fld("DomainTag", "")>>
        ELSE dtStrs

(***************************************************************************)
(* The pure functions applied to every configuration and response.        *)
(***************************************************************************)
InitFn ==
    /\ config \in Configs
    /\ op = "init"
    /\ arg = InvalidResponse
    /\ out = <<>>
    /\ err = "nil"
    /\ PipeStart

CallDeriveHeader ==
    /\ op = "init"
    /\ op' = "DeriveHeader"
    /\ out' = DeriveHeader(config)
    /\ UNCHANGED <<config, arg, err>>
    /\ UNCHANGED pipeVars

CallDeriveMessages ==
    /\ op = "init"
    /\ op' = "DeriveMessages"
    /\ out' = DeriveMessages(config, DomainList[1], 1)
    /\ UNCHANGED <<config, arg, err>>
    /\ UNCHANGED pipeVars

CallExtractCSVSubRow ==
    /\ op = "init"
    /\ \E r \in Responses :
        LET sub == ExtractCSVSubRow(config, r)
        IN  /\ op' = "ExtractCSVSubRow"
            /\ arg' = r
            /\ out' = sub.row
            /\ err' = sub.err
    /\ UNCHANGED config
    /\ UNCHANGED pipeVars

\* ExtractCSVSubRow of lib/config.go on a []DomainTag response.
CallExtractCSVSubRow_lib_config ==
    /\ op = "init"
    /\ \E r \in ApiResponses("DomainTags") :
        /\ op' = "ExtractCSVSubRow (lib/config.go)"
        /\ arg' = r
        /\ out' = extractDomainTagInfo_lib_config(config, r.list)
        /\ err' = "nil"
    /\ UNCHANGED config
    /\ UNCHANGED pipeVars

NextFn ==
    \/ CallDeriveHeader
    \/ CallDeriveMessages
    \/ CallExtractCSVSubRow
    \/ CallExtractCSVSubRow_lib_config

SpecFn == InitFn /\ [][NextFn]_vars

(***************************************************************************)
(* Properties of the pure functions (checked under SpecFn).                *)
(***************************************************************************)
\* The flags of Config that the struct declarations declare.
DeclaredFlags ==
    {f \in AllFlags :
        f[1] = "Features" => f[2] \in Range(DomainRRHistoryFeaturesConfig)}

ActiveDeclared(c, sections) ==
    \E f \in DeclaredFlags : f[1] \in sections /\ Leaf(c, f)

PlanOrder ==
    <<"CategorizationQuery", "CooccurrencesQuery", "RelatedQuery",
      "SecurityQuery", "DomainTagsQuery", "DomainRRHistoryQuery">>

SectionsOfQuery(q) ==
    CASE q = "CategorizationQuery" -> {"Status", "Categories"}
      [] q = "CooccurrencesQuery" -> {"Cooccurrences"}
      [] q = "RelatedQuery" -> {"Related"}
      [] q = "SecurityQuery" -> {"Security"}
      [] q = "DomainTagsQuery" -> {"TaggingDates"}
      [] q = "DomainRRHistoryQuery" -> {"Periods", "Features"}

QueryPlanned(q) == ActiveDeclared(config, SectionsOfQuery(q))

Col(name, flags) == [name |-> name, flags |-> flags]

SectionFlags(section) == {f \in DeclaredFlags : f[1] = section}

\* Every column after Domain, in canonical order, with the flags that turn
\* it on.
Columns ==
    << Col("Status", SectionFlags("Status")),
       Col("SecurityCategories", {<<"Categories", "SecurityCategories">>}),
       Col("ContentCategories", {<<"Categories", "ContentCategories">>}),
       Col("Cooccurrences", SectionFlags("Cooccurrences")),
       Col("RelatedDomains", SectionFlags("Related")) >>
    \o [i \in 1..Len(SecurityConfig) |->
            Col(SecurityConfig[i], {<<"Security", SecurityConfig[i]>>})]
    \o << Col("TaggingDates", SectionFlags("TaggingDates")),
          Col("RR Periods", SectionFlags("Periods")) >>
    \o [i \in 1..Len(DomainRRHistoryFeaturesConfig) |->
            Col(DomainRRHistoryFeaturesConfig[i],
                {<<"Features", DomainRRHistoryFeaturesConfig[i]>>})]

ColumnOn(col) == \E f \in col.flags : Leaf(config, f)

Names(cols) == [i \in 1..Len(cols) |-> cols[i].name]

ResponseTypes ==
    {"*DomainCategorization", "[]RelatedDomain", "[]Cooccurrence",
     "*SecurityFeatures", "[]DomainTag", "*DomainRRHistory"}

\* The configuration sections that decide the fields of a response type.
SectionsOfType(t) ==
    CASE t = "*DomainCategorization" -> {"Status", "Categories"}
      [] t = "[]RelatedDomain" -> {"Related"}
      [] t = "[]Cooccurrence" -> {"Cooccurrences"}
      [] t = "*SecurityFeatures" -> {"Security"}
      [] t = "[]DomainTag" -> {"TaggingDates"}
      [] t = "*DomainRRHistory" -> {"Periods", "Features"}

\* C10: for each of the six response types and every payload, if every flag
\* of the corresponding section is false, ExtractCSVSubRow returns no field
\* and no error.
C10_NotRequestedNoField ==
    ( /\ op = "ExtractCSVSubRow"
      /\ arg.type \in ResponseTypes
      /\ ~Active(config, SectionsOfType(arg.type)) )
    => (out = <<>> /\ err = "nil")

C10_Witness ==
    /\ op = "ExtractCSVSubRow"
    /\ arg = DomainTagList(MaxEntries)
    /\ ~Active(config, {"TaggingDates"})
    /\ Active(config, {"Security"})
    /\ out = <<>>
    /\ err = "nil"

(***************************************************************************)
(* Properties of the pipeline (checked under Spec and SpecLive).           *)
(***************************************************************************)
\* The rows pushed on the output stream so far, oldest first.
Pushed == written \o outChan

RowDomain(row) == row[1].val

RowsOf(d) == {i \in 1..Len(Pushed) : RowDomain(Pushed[i]) = d}

InputDomains == Range(DomainList)

\* The response channels made for domain d.
ChansOf(d) == {ch \in 1..Len(respChan) : respChan[ch].msg.Domain = d}

\* Some query of d has returned an error.
Failed(d) == \E ch \in ChansOf(d) : respChan[ch].res.Err = "error"

Skipped(d) == \E l \in log : l.domain = d

ProcsDone == \A p \in Procs : p.pc = "done"

WorkersDone == \A w \in Workers : w.pc = "done"

RECURSIVE Flatten(_)
Flatten(seqs) ==
    IF Len(seqs) = 0 THEN <<>> ELSE Head(seqs) \o Flatten(Tail(seqs))

\* C1 as stated: every row pushed to the output stream has as many fields
\* as DeriveHeader returns for the configuration.
C1_RowWidthIsHeaderWidth ==
    \A i \in 1..Len(Pushed) : Len(Pushed[i]) = Len(DeriveHeader(config))

\* C2: a domain one of whose queries returned an error has no row on the
\* output stream, partial or full.
C2_NoPartialRows ==
    \A d \in InputDomains : Failed(d) => RowsOf(d) = {}

C2_Witness ==
    \E d \in InputDomains : \E c1, c2 \in ChansOf(d) :
        /\ c1 < c2
        /\ respChan[c1].res.Err = "nil"
        /\ respChan[c1].buf = <<>>
        /\ respChan[c2].res.Err = "error"
        /\ Skipped(d)
        /\ ProcsDone
        /\ RowsOf(d) = {}

\* C3: no row starts with a domain that was not read, no domain has two
\* rows, and once the domain stream is closed and every processor is done
\* each input domain has one row if none of its queries returned an error
\* and no row otherwise.
C3_OneRowPerSuccessfulDomain ==
    /\ \A i \in 1..Len(Pushed) : RowDomain(Pushed[i]) \in InputDomains
    /\ \A d \in InputDomains : Cardinality(RowsOf(d)) <= 1
    /\ (domainClosed /\ ProcsDone) =>
            \A d \in InputDomains :
                Cardinality(RowsOf(d)) = IF Failed(d) THEN 0 ELSE 1

C3_Witness ==
    /\ domainClosed
    /\ ProcsDone
    /\ Len(written) = 1
    /\ outChan = <<>>
    /\ \E d \in InputDomains : Failed(d)
    /\ \E d \in InputDomains : ~Failed(d) /\ ChansOf(d) # {}

\* The row of domain d when every planned query returns its data: the
\* domain, then the sub-row of each planned query in plan order.
PlannedRow(d) ==
    LET plan == DeriveMessages(config, d, 1)
    IN  FirstRow(d) \o
        Flatten([k \in 1..Len(plan) |->
            ExtractCSVSubRow(config, RemoteData(ApiMethod(plan[k].Q), d)).row])

\* C4: every pushed row is the domain followed by the sub-rows of its
\* queries in plan order, whatever the order in which the query workers
\* returned them.
C4_PlanOrderRows ==
    \A i \in 1..Len(Pushed) : Pushed[i] = PlannedRow(RowDomain(Pushed[i]))

C4_Witness ==
    \E i \in 1..Len(Pushed) : \E ch \in ChansOf(RowDomain(Pushed[i])) :
        /\ respChan[ch].late
        /\ Len(Pushed[i]) = 3

\* C5: once a domain has been abandoned, every domain later in the input
\* either gets its row or has a query that returned an error.
C5_FailureIsolation ==
    \A j, k \in 1..MaxDomains :
        j < k =>
            (Skipped(DomainList[j])
                ~> (RowsOf(DomainList[k]) # {} \/ Failed(DomainList[k])))

C5_Witness ==
    /\ Skipped(DomainList[1])
    /\ RowsOf(DomainList[MaxDomains]) # {}
    /\ ChansOf(DomainList[MaxDomains]) # {}

Terminated ==
    /\ ProcsDone
    /\ WorkersDone
    /\ qClosed
    /\ outClosed
    /\ outChan = <<>>
    /\ writer = "done"

\* C6: the output stream is closed only when every processor is done, and
\* eventually every processor and query worker has finished, both channels
\* are closed, every pushed row has been written and writeOut has returned.
C6_Termination ==
    /\ [](outClosed => ProcsDone /\ qClosed)
    /\ <>[]Terminated

C6_Witness ==
    /\ Terminated
    /\ Len(written) = MaxDomains
    /\ respChan # <<>>

\* The header column a row field belongs to.
ColumnOf(src) ==
    CASE src = "RelatedDomain" -> "RelatedDomains"
      [] src = "Cooccurrence" -> "Cooccurrences"
      [] src = "DomainTag" -> "TaggingDates"
      [] src = "RRPeriods" -> "RR Periods"
      [] OTHER -> src

\* C9 as stated: the i-th field of every pushed row holds the value that
\* the i-th header column names.
C9_FieldsMatchHeader ==
    \A i \in 1..Len(Pushed) :
        [k \in 1..Len(Pushed[i]) |-> ColumnOf(Pushed[i][k].src)]
            = DeriveHeader(config)

(***************************************************************************)
(* More properties of the extractors (checked under SpecFn).               *)
(***************************************************************************)
\* The response types that are collections.
CollectionTypes == {"[]RelatedDomain", "[]Cooccurrence", "[]DomainTag"}

\* C11: when a section of Cooccurrences, RelatedDomains or DomainTags is
\* active and the response collection is empty, ExtractCSVSubRow returns
\* exactly one field, the empty string; for a DomainRRHistory without
\* periods and an active Periods sub-section the first field is the empty
\* string.
C11_RequestedNoData ==
    op = "ExtractCSVSubRow" =>
        /\ ( /\ arg.type \in CollectionTypes
             /\ Active(config, SectionsOfType(arg.type))
             /\ Len(arg.list) = 0 )
           => (Vals(out) = <<"">> /\ err = "nil")
        /\ ( /\ arg.type = "*DomainRRHistory"
             /\ Active(config, {"Periods"})
             /\ Len(arg.RRPeriods) = 0 )
           => (Len(out) >= 1 /\ out[1] = Fld("RRPeriods", "") /\ err = "nil")

C11_Witness ==
    /\ op = "ExtractCSVSubRow"
    /\ arg = RelatedDomainList(0)
    /\ config.Related.Score
    /\ ~config.Related.Domain
    /\ Vals(out) = <<"">>

\* C12 as stated: for a collection response of any length the extractor
\* returns exactly one field when the section is active and none when it is
\* not, in both versions of the library.
C12_OneFieldPerCollection ==
    ( /\ op \in {"ExtractCSVSubRow", "ExtractCSVSubRow (lib/config.go)"}
      /\ arg.type \in CollectionTypes )
    => Len(out) = IF Active(config, SectionsOfType(arg.type)) THEN 1 ELSE 0

\* The part of C12 that holds: the same for ExtractCSVSubRow of
\* lib/config_extract.go alone.
C12_OneFieldPerCollection_extract ==
    (op = "ExtractCSVSubRow" /\ arg.type \in CollectionTypes)
    => Len(out) = IF Active(config, SectionsOfType(arg.type)) THEN 1 ELSE 0


\* The number of true flags of configuration c among the flags fs.
TrueFlags(c, fs) == Cardinality({f \in fs : Leaf(c, f)})

CategorizationFlags ==
    {<<"Status", "Status">>, <<"Categories", "SecurityCategories">>,
     <<"Categories", "ContentCategories">>}

\* C13: for a Categorization, SecurityFeatures or DomainRRHistory response,
\* whatever it contains, ExtractCSVSubRow returns one field per true flag of
\* Status/SecurityCategories/ContentCategories, of Security, and (after the
\* periods field) of the RRHistory Features, and none for a false flag.
C13_OneFieldPerTrueFlag ==
    op = "ExtractCSVSubRow" =>
        /\ arg.type = "*DomainCategorization" =>
                Len(out) = TrueFlags(config, CategorizationFlags)
        /\ arg.type = "*SecurityFeatures" =>
                Len(out) = TrueFlags(config, {f \in AllFlags : f[1] = "Security"})
        /\ arg.type = "*DomainRRHistory" =>
                Len(out) = TrueFlags(config, {f \in AllFlags : f[1] = "Features"})
                           + (IF Active(config, {"Periods"}) THEN 1 ELSE 0)
        /\ arg.type \in {"*DomainCategorization", "*SecurityFeatures",
                         "*DomainRRHistory"} =>
                \A i \in 1..Len(out) :
                    out[i].src = "RRPeriods"
                    \/ \E f \in AllFlags : f[2] = out[i].src /\ Leaf(config, f)

C13_Witness ==
    /\ op = "ExtractCSVSubRow"
    /\ arg.type = "*DomainCategorization"
    /\ Len(arg.SecurityCategories) = 0
    /\ config.Categories.SecurityCategories
    /\ ~config.Categories.ContentCategories
    /\ config.Status
    /\ Len(out) = 2
    /\ out[2] = Fld("SecurityCategories", "")

(***************************************************************************)
(* process with the results of any implementation of DomainQueryType: the  *)
(* pipeline from the state where a processor has sent the queries of the   *)
(* first domain and each response channel holds its result, which is what  *)
(* Query can return or a payload of none of the six types with no error.   *)
(***************************************************************************)
AnyResults(m) == Query(m) \cup {DomainQueryResponse(InvalidResponse, "nil")}

InitProcess ==
    /\ config \in {c \in PipeConfigs : Len(DeriveMessages(c, DomainList[1], 1)) > 0}
    /\ PureIdle
    /\ LET queries == DeriveMessages(config, DomainList[1], 1)
       IN  /\ \E results \in [1..Len(queries) ->
                                UNION {AnyResults(queries[k]) : k \in 1..Len(queries)}] :
                /\ \A k \in 1..Len(queries) : results[k] \in AnyResults(queries[k])
                /\ respChan = [k \in 1..Len(queries) |->
                                [msg |-> queries[k], buf |-> <<results[k]>>,
                                 res |-> results[k], late |-> FALSE]]
           /\ proc = Put(Copies(ProcStart, Goroutines - 1),
                         [pc |-> "recv", domain |-> DomainList[1],
                          queries |-> queries, i |-> 1,
                          row |-> FirstRow(DomainList[1])])
    /\ input = Tail(DomainList)
    /\ reader = "scan"
    /\ domainChan = <<>>
    /\ domainClosed = FALSE
    /\ numDomains = 1
    /\ qw = Copies(WorkerStart, Goroutines)
    /\ qClosed = FALSE
    /\ outChan = <<>>
    /\ outClosed = FALSE
    /\ wg = Goroutines
    /\ closer = "wait"
    /\ writer = "range"
    /\ written = <<>>
    /\ log = {}

SpecProcess == InitProcess /\ [][Next]_vars

\* The result received for some query of d has no error but a payload for
\* which ExtractCSVSubRow returns an error.
ExtractFailed(d) ==
    \E ch \in ChansOf(d) :
        /\ respChan[ch].res.Err = "nil"
        /\ ExtractCSVSubRow(config, respChan[ch].res.Resp).err # "nil"

maxTries == 5

\* What inv.client.Do can return: a response with a status and a body, or
\* an error and no response (resp == nil).
HttpResponse(status, body) ==
    [nilResp |-> FALSE, StatusCode |-> status, Body |-> body, err |-> "nil"]

TransportError ==
    [nilResp |-> TRUE, StatusCode |-> 0, Body |-> "nil", err |-> "transport error"]

DoOutcomes ==
    { HttpResponse(200, "json"), HttpResponse(200, "malformed"),
      HttpResponse(404, "text"), HttpResponse(503, "text"), TransportError }

\* Long enough for one attempt more than Request can make.
ScriptLen == maxTries + 2

Scripts == [1..ScriptLen -> DoOutcomes]

\* The result of Request: the response and error it returns, the number of
\* HTTP attempts it made, and whether it panicked instead of returning.
Returned(resp, e, attempts) ==
    [resp |-> resp, err |-> e, attempts |-> attempts, panic |-> FALSE]

Panicked(attempts) ==
    [resp |-> "nil", err |-> "nil", attempts |-> attempts, panic |-> TRUE]

\* Mutant: a 4xx response is retried like a 5xx one.
RECURSIVE RequestLoop_Retry4xx(_, _, _)
RequestLoop_Retry4xx(script, tries, e) ==
    IF ~(tries <= maxTries) THEN Returned("new(http.Response)", e, tries)
    ELSE LET resp == script[tries + 1]
         IN  IF resp.err # "nil"
                \/ (~resp.nilResp /\ resp.StatusCode >= 400 /\ resp.StatusCode < 600)
             THEN IF resp.nilResp THEN Panicked(tries + 1)
                  ELSE IF tries = maxTries
                  THEN Returned("nil", "error: Failed all attempts", tries + 1)
                  ELSE RequestLoop_Retry4xx(script, tries + 1, resp.err)
             ELSE Returned(resp, resp.err, tries + 1)

\* The loop of Request from the iteration with counter tries on; e is the
\* error of the previous attempt.  Every iteration makes one attempt, so
\* the attempts made so far are as many as tries.
RECURSIVE RequestLoop(_, _, _)
RequestLoop(script, tries, e) ==
    IF ~(tries <= maxTries) THEN Returned("new(http.Response)", e, tries)
    ELSE LET resp == script[tries + 1]
         IN  IF resp.err # "nil"
                \/ (~resp.nilResp /\ resp.StatusCode >= 400 /\ resp.StatusCode < 600)
             THEN \* resp.StatusCode is read: a nil resp is a nil dereference.
                  IF resp.nilResp THEN Panicked(tries + 1)
                  ELSE IF resp.StatusCode >= 400 /\ resp.StatusCode < 500
                  THEN Returned("nil", "error", tries + 1)
                  ELSE IF tries = maxTries
                  THEN Returned("nil", "error: Failed all attempts", tries + 1)
                  ELSE RequestLoop(script, tries + 1, resp.err)
             ELSE Returned(resp, resp.err, tries + 1)

Request(script) == RequestLoop(script, 0, "nil")

\* parseBody: the error of json.Unmarshal.
parseBody(respBody) ==
    IF respBody = "json" THEN "nil" ELSE "error unmarshaling JSON response"

\* GetParse: Request, then parseBody unless Request returned an error.
GetParse(script) ==
    LET r == Request(script)
    IN  IF r.panic \/ r.err # "nil" THEN r
        ELSE [r EXCEPT !.err = parseBody(r.resp.Body)]

InitRequest ==
    /\ config = Config({})
    /\ op = "init"
    /\ \E script \in Scripts : arg = [type |-> "script", script |-> script]
    /\ out = <<>>
    /\ err = "nil"
    /\ PipeStart

CallRequest ==
    /\ op = "init"
    /\ op' = "Request"
    /\ out' = Request(arg.script)
    /\ err' = out'.err
    /\ UNCHANGED <<config, arg>>
    /\ UNCHANGED pipeVars

CallGetParse ==
    /\ op = "init"
    /\ op' = "GetParse"
    /\ out' = GetParse(arg.script)
    /\ err' = out'.err
    /\ UNCHANGED <<config, arg>>
    /\ UNCHANGED pipeVars

NextRequest == CallRequest \/ CallGetParse

SpecRequest == InitRequest /\ [][NextRequest]_vars

(***************************************************************************)
(* Properties of Request and GetParse (checked under SpecRequest).         *)
(***************************************************************************)
Is4xx(o) == ~o.nilResp /\ o.StatusCode >= 400 /\ o.StatusCode < 500

Is5xx(o) == ~o.nilResp /\ o.StatusCode >= 500 /\ o.StatusCode < 600

IsSuccess(o) == ~o.nilResp /\ o.err = "nil" /\ o.StatusCode < 400

\* C15 as stated: a remote call never panics, and unless it got a
\* well-formed successful response it returns with its error set.
C15_FailuresBecomeErrors ==
    op = "GetParse" =>
        /\ ~out.panic
        /\ out.err = "nil" => out.resp = HttpResponse(200, "json")

\* C16 as stated: Request makes at most maxTries (5) attempts; when every
\* attempt got a 5xx status it returns an error; when an attempt succeeds
\* it returns that response without error and makes no further attempt.
C16_RetryBound ==
    (op = "Request" /\ ~out.panic) =>
        /\ out.attempts <= maxTries
        /\ (\A k \in 1..out.attempts : Is5xx(arg.script[k])) => out.err # "nil"
        /\ \A k \in 1..maxTries :
              (out.attempts >= k /\ IsSuccess(arg.script[k])) =>
                  (out.attempts = k /\ out.resp = arg.script[k] /\ out.err = "nil")

\* C17: when an attempt of Request gets a 4xx status, Request returns an
\* error and no response right after that attempt, however many attempts
\* came before.
C17_4xxIsPermanent ==
    op = "Request" =>
        \A k \in 1..ScriptLen :
            (out.attempts >= k /\ Is4xx(arg.script[k])) =>
                /\ out.attempts = k
                /\ out.err # "nil"
                /\ out.resp = "nil"
                /\ ~out.panic

C17_Witness ==
    /\ op = "Request"
    /\ Is5xx(arg.script[1])
    /\ Is5xx(arg.script[2])
    /\ Is4xx(arg.script[3])
    /\ IsSuccess(arg.script[4])
    /\ out.attempts = 3
    /\ out.err = "error"

(***************************************************************************)
(* Properties of the query workers (checked under Spec).                   *)
(***************************************************************************)
Chans == 1..Len(respChan)

\* The result of the query of channel ch has been sent on it.
Delivered(ch) == respChan[ch].res.Err # "none"

\* The number of query workers that hold the message of channel ch.
Holding(ch) ==
    LET S == {w \in Workers : w.pc = "call" /\ w.m.RespChan = ch}
    IN  IF S = {} THEN 0 ELSE CopiesIn(CHOOSE w \in S : TRUE, qw)

\* C18: whenever a query worker is about to send a result, the response
\* channel of its message has free buffer space and has never been sent
\* on; no response channel ever holds more than its capacity.
C18_WorkerNeverBlocks ==
    /\ \A w \in Workers :
          w.pc = "call" =>
              /\ Len(respChan[w.m.RespChan].buf) < RespChanCap
              /\ ~Delivered(w.m.RespChan)
    /\ \A ch \in Chans : Len(respChan[ch].buf) <= RespChanCap

\* The processors are done, and a result sent for an abandoned domain is
\* still in its channel, never to be read.
C18_Witness ==
    /\ ProcsDone
    /\ \E ch \in Chans :
          /\ Len(respChan[ch].buf) = 1
          /\ Skipped(respChan[ch].msg.Domain)
          /\ \E c2 \in Chans : c2 < ch /\ respChan[c2].res.Err = "error"
                               /\ respChan[c2].msg.Domain = respChan[ch].msg.Domain

\* A message is submitted when its processor has sent it on qChan.
Submitted(ch) ==
    \A p \in Procs :
        (p.pc = "send" /\ p.domain = respChan[ch].msg.Domain)
            => p.queries[p.i].RespChan > ch

\* C19: every submitted message is either held by exactly one query worker
\* or has had exactly one result delivered, on its own response channel and
\* being a result of its own query; a message not yet submitted is held by
\* no worker and has no result; when the query workers have exited every
\* message has its result.
C19_ExactlyOnce ==
    /\ \A ch \in Chans :
          /\ Holding(ch) + (IF Delivered(ch) THEN 1 ELSE 0)
                = IF Submitted(ch) THEN 1 ELSE 0
          /\ Delivered(ch) => respChan[ch].res \in Query(respChan[ch].msg)
          /\ \A k \in 1..Len(respChan[ch].buf) :
                respChan[ch].buf[k] = respChan[ch].res
          /\ respChan[ch].msg.RespChan = ch
    /\ WorkersDone => \A ch \in Chans : Delivered(ch)

C19_Witness ==
    /\ WorkersDone
    /\ Len(respChan) = 2 * MaxDomains
    /\ \A ch \in Chans : Delivered(ch)
    /\ \E ch \in Chans : respChan[ch].msg.Q = "SecurityQuery"

(***************************************************************************)
(* The pipeline with one remote call that never returns.  arg names the    *)
(* wedged call: the query of type arg.Q for domain arg.Domain.             *)
(***************************************************************************)
WedgedCall(domain, q) == [type |-> "wedged call", Domain |-> domain, Q |-> q]

Wedged(m) == m.Domain = arg.Domain /\ m.Q = arg.Q

InitWedged ==
    /\ config \in PipeConfigs
    /\ op = "none"
    /\ \E d \in Range(DomainList) :
        \E k \in 1..Len(DeriveMessages(config, d, 1)) :
            arg = WedgedCall(d, DeriveMessages(config, d, 1)[k].Q)
    /\ out = <<>>
    /\ err = "nil"
    /\ PipeStart

\* Mutant: the remote calls are made under a lock, which the wedged call
\* never releases.
WorkerReturnUnlessWedged_Locked(w) ==
    /\ \A v \in Workers : ~(v.pc = "call" /\ Wedged(v.m))
    /\ WorkerReturn(w)

(* query: the remote call returns, unless it is the wedged one. *)
WorkerReturnUnlessWedged(w) ==
    /\ w.pc = "call"
    /\ ~Wedged(w.m)
    /\ WorkerReturn(w)

NextWedged ==
    \/ ReaderSend
    \/ ReaderCount
    \/ ReaderClose
    \/ \E p \in Procs : ProcRecvDomain(p)
    \/ \E p \in Procs : ProcDone(p)
    \/ \E p \in Procs, w \in Workers : ProcSendQuery(p, w)
    \/ \E p \in Procs : ProcRecvResult(p)
    \/ \E p \in Procs : ProcPushRow(p)
    \/ \E w \in Workers : WorkerReturnUnlessWedged(w)
    \/ \E w \in Workers : WorkerDone(w)
    \/ CloserCloseQ
    \/ CloserCloseOut
    \/ WriterRecv
    \/ WriterDone

\* Every goroutine that can take a step eventually takes one, and every
\* remote call but the wedged one returns.
SpecWedged == InitWedged /\ [][NextWedged]_vars /\ WF_vars(NextWedged)

\* The number of processors at pcv, and of query workers in a remote call.
NumProcsAt(pcv) ==
    BagCardinality([p \in {x \in Procs : x.pc = pcv} |-> CopiesIn(p, proc)])

NumWorkersCalling ==
    BagCardinality([w \in {x \in Workers : x.pc = "call"} |-> CopiesIn(w, qw)])

OtherDomainsSettle ==
    \A d \in InputDomains :
        d # arg.Domain => <>(RowsOf(d) # {} \/ Skipped(d))

\* C20 as stated: in the end exactly one query worker and exactly one
\* processor are blocked for ever, and every other domain gets its row or
\* is abandoned.
C20_OneProcessorOneWorkerBlocked ==
    /\ <>[](NumWorkersCalling = 1 /\ NumProcsAt("recv") = 1)
    /\ OtherDomainsSettle

\* A query planned before the wedged one for the same domain has returned
\* an error.
EarlierFailed ==
    \E ch, wch \in ChansOf(arg.Domain) :
        /\ ch < wch
        /\ respChan[wch].msg.Q = arg.Q
        /\ respChan[ch].res.Err = "error"

\* C20 amended: in the end exactly one query worker, the one with the
\* wedged call, is blocked for ever; exactly one processor is blocked for
\* ever too, unless an earlier query of the same domain returned an error,
\* in which case the processor abandons the domain and every processor
\* finishes; every other domain gets its row or is abandoned.
C20_WedgeContained ==
    /\ <>[]( /\ NumWorkersCalling = 1
             /\ \A w \in Workers : w.pc = "call" => Wedged(w.m)
             /\ NumProcsAt("recv") = IF EarlierFailed THEN 0 ELSE 1
             /\ NumProcsAt("recv") + NumProcsAt("done") = Goroutines
             /\ EarlierFailed => Skipped(arg.Domain) )
    /\ OtherDomainsSettle

C20_Witness ==
    /\ arg.Domain = DomainList[1]
    /\ arg.Q = "SecurityQuery"
    /\ NumWorkersCalling = 1
    /\ NumProcsAt("recv") = 1
    /\ NumProcsAt("done") = Goroutines - 1
    /\ \A d \in InputDomains : d # arg.Domain => RowsOf(d) # {}
    /\ outChan = <<>>

(***************************************************************************)
(* Endpoint dispatch (checked under Spec).                                 *)
(***************************************************************************)
\* The payload type of the endpoint each query kind is named after.
PayloadTypeOf(q) ==
    CASE q = "CategorizationQuery" -> "*DomainCategorization"
      [] q = "CooccurrencesQuery" -> "[]Cooccurrence"
      [] q = "RelatedQuery" -> "[]RelatedDomain"
      [] q = "SecurityQuery" -> "*SecurityFeatures"
      [] q = "DomainTagsQuery" -> "[]DomainTag"
      [] q = "DomainRRHistoryQuery" -> "*DomainRRHistory"

\* The fields of a sub-row extracted from a payload of type t.
FieldSrcsOfType(t) ==
    CASE t = "[]Cooccurrence" -> {"Cooccurrence"}
      [] t = "[]RelatedDomain" -> {"RelatedDomain"}
      [] t = "[]DomainTag" -> {"DomainTag"}
      [] t = "*DomainCategorization" ->
            {"Status", "SecurityCategories", "ContentCategories"}
      [] t = "*SecurityFeatures" -> Range(SecurityConfig)
      [] t = "*DomainRRHistory" -> {"RRPeriods"} \cup Range(FeaturesFlagsRead)

\* C21 as stated: every result that a query returns without error carries
\* the payload type of the query's own endpoint, and the sub-row extracted
\* from it holds only fields of that endpoint's configuration section.
C21_EndpointDispatch ==
    \A ch \in 1..Len(respChan) :
        respChan[ch].res.Err = "nil" =>
            /\ respChan[ch].res.Resp.type = PayloadTypeOf(respChan[ch].msg.Q)
            /\ Range(Srcs(ExtractCSVSubRow(config, respChan[ch].res.Resp).row))
                    \subseteq FieldSrcsOfType(PayloadTypeOf(respChan[ch].msg.Q))

(***************************************************************************)
(* The configuration is shared and never written (checked under Spec).     *)
(***************************************************************************)
\* The fields of a row that were extracted from a payload of type t.
FieldsOfType(row, t) ==
    LET FromT(f) == f.src \in FieldSrcsOfType(t)
    IN  SelectSeq(row, FromT)

\* Two results of the same payload that went into two pushed rows.
SamePayload(i, j, c1, c2) ==
    /\ c1 \in ChansOf(RowDomain(Pushed[i]))
    /\ c2 \in ChansOf(RowDomain(Pushed[j]))
    /\ respChan[c1].res.Err = "nil"
    /\ respChan[c1].res = respChan[c2].res

ScoreText(t, entry) ==
    IF t = "[]RelatedDomain" THEN Itoa(entry.Score)
    ELSE convertFloatToStr(entry.Score)

\* An entry as the claim renders it under the flags sc of its section.
DomainScoreEntry(t, sc, entry) ==
    IF sc.Domain /\ sc.Score THEN entry.Domain \o ":" \o ScoreText(t, entry)
    ELSE IF sc.Domain THEN entry.Domain
    ELSE ScoreText(t, entry)

\* The section of the configuration that formats a response of type t.
DomainScoreSection(t) ==
    IF t = "[]RelatedDomain" THEN config.Related ELSE config.Cooccurrences

\* C23: for a non-empty []RelatedDomain or []Cooccurrence response and an
\* active section, ExtractCSVSubRow returns one field: the entries in
\* response order joined with ", ", each rendered as domain:score when both
\* flags are on, as the domain alone when only Domain is on, and as the
\* score alone when only Score is on.
C23_DomainScoreFormat ==
    ( /\ op = "ExtractCSVSubRow"
      /\ arg.type \in {"[]RelatedDomain", "[]Cooccurrence"}
      /\ Len(arg.list) > 0
      /\ Active(config, SectionsOfType(arg.type)) )
    => /\ err = "nil"
       /\ Vals(out) =
            << Join([i \in 1..Len(arg.list) |->
                        DomainScoreEntry(arg.type, DomainScoreSection(arg.type),
                                         arg.list[i])], ", ") >>

C23_Witness ==
    /\ op = "ExtractCSVSubRow"
    /\ arg = RelatedDomainList(MaxEntries)
    /\ config.Related.Domain
    /\ ~config.Related.Score
    /\ Vals(out) = <<"www.example1.com, www.example2.com">>

\* The sub-fields of a tag that are switched on, in the order url,
\* category, begin, end.
TagEntry(dt) ==
    LET T == config.TaggingDates
    IN  (IF T.Url THEN <<dt.Url>> ELSE <<>>)
        \o (IF T.Category THEN <<dt.Category>> ELSE <<>>)
        \o (IF T.Begin THEN <<dt.Period.Begin>> ELSE <<>>)
        \o (IF T.End THEN <<dt.Period.End>> ELSE <<>>)

InputIndex(d) == CHOOSE i \in 1..MaxDomains : DomainList[i] = d

\* C25: a row enters the output stream when its processor has received the
\* last result of its domain, behind every row pushed before: the rows are
\* in completion order, which need not be the input order.
C25_CompletionOrder ==
    [][Pushed' # Pushed =>
        \E p \in Procs :
            /\ p.pc = "push"
            /\ RowDomain(p.row) = p.domain
            /\ Pushed' = Append(Pushed, p.row)]_vars

\* The row of a later input domain is on the output stream before the row
\* of an earlier one.
C25_Witness ==
    \E i, j \in 1..Len(Pushed) :
        /\ i < j
        /\ InputIndex(RowDomain(Pushed[i])) > InputIndex(RowDomain(Pushed[j]))
        /\ Len(Pushed[i]) > 1

(***************************************************************************)
(* The output file (checked under SpecMain).                               *)
(***************************************************************************)
\* The records of the file after the first.
FileRows == Tail(written)

\* C26: the first record of the file is the header; a record is added to
\* the file only by main writing the header into the empty file or by
\* writeOut taking the oldest row of the output stream; the stream changes
\* only by a push at its end or by that take; so each pushed row is written
\* once, in push order; and no record is the row of an abandoned domain.
C26_FileOrder ==
    /\ [](written # <<>> => written[1] = HeaderRow(config))
    /\ [][written' # written =>
            \/ /\ written = <<>>
               /\ written' = <<HeaderRow(config)>>
               /\ outChan' = outChan
            \/ /\ outChan # <<>>
               /\ written' = Append(written, Head(outChan))
               /\ outChan' = Tail(outChan)]_vars
    /\ [][outChan' # outChan =>
            \/ \E p \in Procs : outChan' = Append(outChan, p.row) /\ written' = written
            \/ /\ outChan # <<>>
               /\ outChan' = Tail(outChan)
               /\ written' = Append(written, Head(outChan))]_vars
    /\ [](\A i \in 1..Len(written) :
            i > 1 => /\ RowDomain(written[i]) \in InputDomains
                     /\ ~Failed(RowDomain(written[i]))
                     /\ \A j \in 1..Len(written) :
                            RowDomain(written[j]) = RowDomain(written[i]) => j = i)

C26_Witness ==
    /\ writer = "done"
    /\ written[1] = HeaderRow(config)
    /\ Len(written) = 2
    /\ Len(written[2]) = Len(written[1])
    /\ Len(written[2]) > 1
    /\ \E d \in InputDomains : Failed(d)

(***************************************************************************)
(* The empty plan (checked under Spec).                                    *)
(***************************************************************************)
NoFlagTrue == \A f \in AllFlags : ~Leaf(config, f)

\* C27: with no flag true, no response channel is made, no processor ever
\* sends a query or waits for a result, no query worker ever makes a call,
\* every pushed row is the domain name alone, and when the input is
\* exhausted and the processors are done every input domain has its row.
C27_EmptyPlan ==
    NoFlagTrue =>
        /\ respChan = <<>>
        /\ \A p \in Procs : p.pc \in {"range", "push", "done"} /\ p.queries = <<>>
        /\ \A w \in Workers : w.pc # "call"
        /\ \A i \in 1..Len(Pushed) :
                Pushed[i] \in {<<Fld("Domain", d)>> : d \in InputDomains}
        /\ log = {}
        /\ (domainClosed /\ ProcsDone) =>
                \A d \in InputDomains : Cardinality(RowsOf(d)) = 1

C27_Witness ==
    /\ NoFlagTrue
    /\ Terminated
    /\ Vals(Flatten(written)) = DomainList

(***************************************************************************)
(* Queries and columns (checked under SpecFn).                             *)
(***************************************************************************)
\* The header columns that belong to the endpoint of query kind q.
HeaderNamesOfQuery(q) ==
    CASE q = "CategorizationQuery" ->
            {"Status", "SecurityCategories", "ContentCategories"}
      [] q = "CooccurrencesQuery" -> {"Cooccurrences"}
      [] q = "RelatedQuery" -> {"RelatedDomains"}
      [] q = "SecurityQuery" -> Range(SecurityConfig)
      [] q = "DomainTagsQuery" -> {"TaggingDates"}
      [] q = "DomainRRHistoryQuery" ->
            {"RR Periods"} \cup Range(FeaturesFlagsRead)

\* The payloads of the endpoint of query kind q.
PayloadsOfQuery(q) ==
    {r \in Responses : r.type = PayloadTypeOf(q)}

\* C28 as stated: a query is in the plan if and only if its endpoint has a
\* column in the header, and if and only if every payload of the endpoint
\* gives at least one field.
C28_QueryIffColumn ==
    op = "DeriveMessages" =>
        \A k \in 1..Len(PlanOrder) :
            LET q == PlanOrder[k]
                planned == \E i \in 1..Len(out) : out[i].Q = q
                column == Range(DeriveHeader(config)) \cap HeaderNamesOfQuery(q) # {}
                field == \A r \in PayloadsOfQuery(q) :
                            Len(ExtractCSVSubRow(config, r).row) > 0
            IN  /\ planned <=> column
                /\ planned <=> field

\* The same, for the configurations in which Labels is not the only true
\* flag of the Categorization endpoint and no undeclared flag is on.
C28_QueryIffColumn_UnlessLabelsAlone ==
    ( /\ op = "DeriveMessages"
      /\ config.Categories.Labels =>
            \/ config.Status
            \/ config.Categories.SecurityCategories
            \/ config.Categories.ContentCategories
      /\ \A f \in AllFlags \ DeclaredFlags : ~Leaf(config, f) )
    => \A k \in 1..Len(PlanOrder) :
            LET q == PlanOrder[k]
                planned == \E i \in 1..Len(out) : out[i].Q = q
                column == Range(DeriveHeader(config)) \cap HeaderNamesOfQuery(q) # {}
                field == \A r \in PayloadsOfQuery(q) :
                            Len(ExtractCSVSubRow(config, r).row) > 0
            IN  /\ planned <=> column
                /\ planned <=> field

(***************************************************************************)
(* Closing the channels (checked under Spec).                              *)
(***************************************************************************)
\* The closer is the only goroutine that closes, and it closes the query
\* channel and then the output channel, once each; both only when every
\* processor has returned.
ClosedOnceAfterProcessors ==
    /\ qClosed <=> closer \in {"closeOut", "done"}
    /\ outClosed <=> closer = "done"
    /\ qClosed => ProcsDone /\ wg = 0
    /\ outClosed => ProcsDone /\ qClosed

\* C29 as stated: the channels are closed once each and only after every
\* processor has returned, and no query worker is executing a query when
\* the query channel is closed.
C29_CloseSafety ==
    /\ ClosedOnceAfterProcessors
    /\ qClosed => \A w \in Workers : w.pc # "call"

\* C29 amended: the channels are closed once each and only after every
\* processor has returned (so no processor sends on a closed channel); a
\* query worker can still be executing a query when the query channel is
\* closed, but only a query of a domain that was abandoned, and the
\* response channel it will send on is empty, so it does not block.
C29_CloseSafetyButAbandoned ==
    /\ ClosedOnceAfterProcessors
    /\ qClosed => \A w \in Workers :
            w.pc = "call" =>
                /\ Skipped(w.m.Domain)
                /\ respChan[w.m.RespChan].buf = <<>>

C29_Witness ==
    /\ qClosed
    /\ outClosed
    /\ \E w \in Workers : w.pc = "call"

(***************************************************************************)
(* The progress message (checked under Spec).                              *)
(***************************************************************************)
\* writeOut's local counter: it is incremented once for each row received,
\* in the step that formats the message and writes the row.
numProcessed == Len(written)

\* C30 as stated: in the progress message numProcessed/numDomains that
\* writeOut formats on receiving a row, the processed count is at most the
\* total counted by the reader at that moment.  (numDomains never
\* decreases, so the state after the step shows the pair of the message.)
C30_ProcessedAtMostTotal ==
    numProcessed <= numDomains


====
